---- MODULE Spec2Model ----
(***************************************************************************)
(* Model of the x402-server access-grant stores.                           *)
(*                                                                         *)
(* src/main.go holds two programs (two `package main`):                    *)
(*   - the session-token server (lines 1-378): SessionStore, the pay       *)
(*     handlers that mint a session, GET /api/session/:sessionId that      *)
(*     redeems it and GET /api/sessions that lists the active ones;        *)
(*   - the wallet-address server (lines 380-637): the paidUsers map, POST  *)
(*     /api/pay/image that records a payment and GET /api/image that       *)
(*     redeems it.                                                         *)
(* A behaviour is a run of one of the two programs (variable `variant`).   *)
(* Every handler is a goroutine; a step is one access to shared state (a   *)
(* lock operation, the critical section it protects, a read or write of a  *)
(* session's Used flag made outside the lock, a read of the clock).        *)
(*                                                                         *)
(* The reads and the write of *session.Used are made outside the lock; a    *)
(* racing read of the flag sees the old or the new value, which is what    *)
(* the interleaving of the read and write steps gives.                     *)
(* uuid.New() is a supply of fresh ids (nextId).  `created` and `hist` and *)
(* the locals seenPay and evalStart are history: they record what happened *)
(* and no handler reads them.                                              *)
(*                                                                         *)
(* Time is counted in abstract ticks; the three durations of the code keep *)
(* their names and their order only matters within one program.            *)
(***************************************************************************)
EXTENDS Integers, Sequences, FiniteSets, TLC

\* ---------------------------------------------------------------- bounds
MaxProcs == 2
MaxRequests == 3
MaxSessions == 1
MaxTime == 2

\* ------------------------------------------------------ program constants
\* now.Add(24 * time.Hour), in ticks
SessionTTL == 2
\* now.Add(5 * time.Minute), in ticks
OnetimeTTL == 1
\* const ViewDuration = 30 * time.Second, in ticks
ViewDuration == 2

VARIABLES
    variant,    \* which program runs: "session" or "wallet"
    clock,      \* the wall clock time.Now() reads
    nreq,       \* requests accepted so far
    procs,      \* the handler goroutines: position and locals of each
    mu,         \* the store's sync.RWMutex: writer and set of readers
    nextId,     \* supply of fresh uuids
    heap,       \* the Session objects, by pointer
    sessions,   \* SessionStore.sessions: id -> pointer to Session
    paidUsers,  \* paidUsers: normalized wallet address -> UserAccess
    created,    \* history: the keys that were stored by an issuance
    hist        \* history: per wallet key, latest payment time and eviction

vars == <<variant, clock, nreq, procs, mu, nextId, heap, sessions, paidUsers,
          created, hist>>

Procs == 1..MaxProcs
SessionIds == 1..MaxSessions
\* the :sessionId values requests present: the uuids and one never minted
RequestIds == 1..(MaxSessions + 1)
\* the zero time.Time: long before every instant the clock shows
NoTime == 0 - 1000
NoProc == 0

\* ------------------------------------------------------- wallet addresses
\* A header value is a sequence of characters; the empty one is a missing
\* header.
Chars == {"a", "A"}
Headers == {<<>>} \cup {<<c>> : c \in Chars}

LowerChar(c) == CASE c = "A" -> "a" [] OTHER -> c

\* strings.ToLower
ToLower(s) == [i \in DOMAIN s |-> LowerChar(s[i])]

WalletKeys == {ToLower(h) : h \in Headers \ {<<>>}}

\* ----------------------------------------------------------------- locals
IdleProc ==
    [op |-> "none", pc |-> "idle", key |-> <<>>, ptr |-> 0, found |-> FALSE,
     start |-> NoTime, now |-> NoTime, isExpired |-> FALSE,
     verdict |-> "none", active |-> <<>>, todo |-> {},
     seenPay |-> NoTime, evalStart |-> NoTime, hdr |-> <<>>]

\* a finished handler keeps what its answer carries
Finish(q, v) ==
    [IdleProc EXCEPT !.op = q.op, !.key = q.key, !.pc = "done", !.verdict = v,
                     !.now = q.now, !.start = q.start, !.active = q.active,
                     !.seenPay = q.seenPay, !.evalStart = q.evalStart]

\* a goroutine slot takes a request when it runs none; the slots being
\* interchangeable, fresh slots are taken in order
Idle(p) ==
    \/ procs[p].pc = "done"
    \/ procs[p].pc = "idle" /\ \A q \in Procs : q < p => procs[q].pc # "idle"

CanStart(p) == Idle(p) /\ nreq < MaxRequests

Begin(p, o, k, at) ==
    /\ procs' = [procs EXCEPT ![p] = [IdleProc EXCEPT !.op = o, !.key = k, !.pc = at]]
    /\ nreq' = nreq + 1

\* ------------------------------------------------------------ sync.RWMutex
\* Lock waits for the writer and all readers to leave, RLock for the writer.
\* (Go also holds new readers back while a writer waits; no handler takes
\* the lock twice, so that only orders the waiting.)
CanLock == mu.w = NoProc /\ mu.r = {}
CanRLock == mu.w = NoProc
Locked(p) == [mu EXCEPT !.w = p]
Unlocked == [mu EXCEPT !.w = NoProc]
RLocked(p) == [mu EXCEPT !.r = @ \cup {p}]
\* a return path that forgets s.mu.RUnlock()
RUnlockForgotten(p) == mu
RUnlocked(p) == [mu EXCEPT !.r = @ \ {p}]

\* ------------------------------------------------------------------- time
\* time.Time.After: strictly later
After(t, u) == t > u

\* time.Time.Add
Add(t, d) == t + d

\* time.Time.Sub
Sub(t, u) == t - u

\* ============================================================ SessionStore
\* a Set that drops the entry when the id is already stored
StoreSetEvicts(m, id, ptr) ==
    IF id \in DOMAIN m THEN [k \in DOMAIN m \ {id} |-> m[k]]
    ELSE [k \in DOMAIN m \cup {id} |-> IF k = id THEN ptr ELSE m[k]]

\* s.sessions[id] = session
StoreSet(m, id, ptr) == [k \in DOMAIN m \cup {id} |-> IF k = id THEN ptr ELSE m[k]]

\* session, exists := s.sessions[id]
StoreHas(m, id) == id \in DOMAIN m
StoreGet(m, id) == IF id \in DOMAIN m THEN m[id] ELSE 0

\* mutant: the expiry test reads the wrong field, CreatedAt
IsExpiredSinceCreated(now, s) == After(now, s.CreatedAt)

\* isExpired := now.After(session.ExpiresAt)
IsExpired(now, s) == After(now, s.ExpiresAt)

\* isUsed := session.Type == "onetime" && session.Used != nil && *session.Used
IsUsed(s) == s.Type = "onetime" /\ s.Used # "nil" /\ s.Used = "true"

\* if session.Type == "onetime" && session.Used != nil
MarksUsed(s) == s.Type = "onetime" /\ s.Used # "nil"

\* a mark that also ends the session's lifetime
MarkUsedAndExpire(s) == [s EXCEPT !.Used = "true", !.ExpiresAt = s.CreatedAt]

\* mutant: the mark flips the flag instead of setting it
MarkToggle(s) == [s EXCEPT !.Used = IF @ = "true" THEN "false" ELSE "true"]

\* *session.Used = true
MarkUsed(s) == [s EXCEPT !.Used = "true"]

\* the filter of GetAllActive
IsActive(now, s) == ~IsExpired(now, s) /\ ~IsUsed(s)

\* errorMsg of the validate handler: "Session expired" unless isUsed
ErrorVerdict(isExpired, isUsed) == IF isUsed THEN "ALREADY_USED" ELSE "EXPIRED"

\* a session minted without a lifetime: ExpiresAt is the creation time
NewSessionNoLifetime(id, now, type) ==
    [ID |-> id, CreatedAt |-> now, ExpiresAt |-> now, Type |-> type,
     Used |-> IF type = "onetime" THEN "false" ELSE "nil"]

\* the Session built by the two pay handlers
NewSession(id, now, type) ==
    [ID |-> id, CreatedAt |-> now,
     ExpiresAt |-> Add(now, IF type = "onetime" THEN OnetimeTTL ELSE SessionTTL),
     Type |-> type,
     Used |-> IF type = "onetime" THEN "false" ELSE "nil"]

SessionVars == <<nextId, heap, sessions>>
WalletVars == <<paidUsers, hist>>

\* ------------------------------- POST /api/pay/session, /api/pay/onetime
\* sessionID := uuid.New().String(); now := time.Now(); session := &Session{}
PayNew(p, type) ==
    /\ variant = "session"
    /\ CanStart(p)
    /\ nextId <= MaxSessions
    /\ procs' = [procs EXCEPT ![p] =
                    [IdleProc EXCEPT !.op = "pay", !.pc = "set_lock",
                                     !.key = nextId, !.ptr = nextId, !.now = clock]]
    /\ nreq' = nreq + 1
    /\ heap' = StoreSet(heap, nextId, NewSession(nextId, clock, type))
    /\ nextId' = nextId + 1
    /\ UNCHANGED <<variant, clock, mu, sessions, created, WalletVars>>

\* SessionStore.Set: s.mu.Lock()
SetLock(p) ==
    /\ procs[p].pc = "set_lock"
    /\ CanLock
    /\ mu' = Locked(p)
    /\ procs' = [procs EXCEPT ![p].pc = "set_store"]
    /\ UNCHANGED <<variant, clock, nreq, SessionVars, created, WalletVars>>

\* SessionStore.Set: s.sessions[id] = session; s.mu.Unlock(); the handler
\* then answers (the issuance result, or "valid" for a redemption)
SetStore(p) ==
    /\ procs[p].pc = "set_store"
    /\ mu.w = p
    /\ sessions' = StoreSet(sessions, procs[p].key, procs[p].ptr)
    /\ mu' = Unlocked
    /\ procs' = [procs EXCEPT ![p] =
                    Finish(@, IF @.op = "pay" THEN "ISSUED" ELSE "VALID")]
    /\ created' = created \cup {procs[p].key}
    /\ UNCHANGED <<variant, clock, nreq, nextId, heap, WalletVars>>

\* ------------------------------------------- GET /api/session/:sessionId
\* sessionID := c.Param("sessionId")
ValidateStart(p, id) ==
    /\ variant = "session"
    /\ CanStart(p)
    /\ Begin(p, "validate", id, "get_rlock")
    /\ UNCHANGED <<variant, clock, mu, SessionVars, created, WalletVars>>

\* SessionStore.Get: s.mu.RLock()
GetRLock(p) ==
    /\ procs[p].pc = "get_rlock"
    /\ CanRLock
    /\ mu' = RLocked(p)
    /\ procs' = [procs EXCEPT ![p].pc = "get_read"]
    /\ UNCHANGED <<variant, clock, nreq, SessionVars, created, WalletVars>>

\* SessionStore.Get: the map read and s.mu.RUnlock(); a missing session is
\* answered 404 "Session not found"
GetRead(p) ==
    /\ procs[p].pc = "get_read"
    /\ mu' = RUnlocked(p)
    /\ LET exists == StoreHas(sessions, procs[p].key)
       IN procs' = [procs EXCEPT ![p] =
                        IF exists
                        THEN [@ EXCEPT !.found = TRUE, !.pc = "v_now",
                                       !.ptr = StoreGet(sessions, procs[p].key)]
                        ELSE Finish(@, "NOT_FOUND")]
    /\ UNCHANGED <<variant, clock, nreq, SessionVars, created, WalletVars>>

\* now := time.Now(); isExpired := now.After(session.ExpiresAt)
ValidateNow(p) ==
    /\ procs[p].pc = "v_now"
    /\ procs' = [procs EXCEPT ![p].now = clock,
                              ![p].isExpired = IsExpired(clock, heap[procs[p].ptr]),
                              ![p].pc = "v_used"]
    /\ UNCHANGED <<variant, clock, nreq, mu, SessionVars, created, WalletVars>>

\* isUsed := ... *session.Used (read without the lock); the invalid answer,
\* or the way on to the mark / the valid answer
ValidateUsed(p) ==
    /\ procs[p].pc = "v_used"
    /\ LET s == heap[procs[p].ptr]
           isUsed == IsUsed(s)
           bad == procs[p].isExpired \/ isUsed
           marks == MarksUsed(s)
       IN procs' = [procs EXCEPT ![p] =
                        IF bad THEN Finish(@, ErrorVerdict(@.isExpired, isUsed))
                        ELSE IF marks THEN [@ EXCEPT !.pc = "v_mark"]
                        ELSE Finish(@, "VALID")]
    /\ UNCHANGED <<variant, clock, nreq, mu, SessionVars, created, WalletVars>>

\* *session.Used = true (written without the lock)
ValidateMark(p) ==
    /\ procs[p].pc = "v_mark"
    /\ heap' = [heap EXCEPT ![procs[p].ptr] = MarkUsed(@)]
    /\ procs' = [procs EXCEPT ![p].pc = "set_lock"]
    /\ UNCHANGED <<variant, clock, nreq, mu, nextId, sessions, created, WalletVars>>

\* ----------------------------------------------------- GET /api/sessions
\* a loop body that rewrites a nil Used as false while it visits a session
VisitNormalizes(s) == [s EXCEPT !.Used = IF @ = "nil" THEN "false" ELSE @]

\* GetAllActive: the session object after the loop body visited it; the
\* body only reads ExpiresAt and *Used and appends the pointer
Visit(s) == s

ListStart(p) ==
    /\ variant = "session"
    /\ CanStart(p)
    /\ Begin(p, "list", <<>>, "ga_rlock")
    /\ UNCHANGED <<variant, clock, mu, SessionVars, created, WalletVars>>

\* GetAllActive: s.mu.RLock(); now := time.Now(); var active []*Session
GetAllActiveRLock(p) ==
    /\ procs[p].pc = "ga_rlock"
    /\ CanRLock
    /\ mu' = RLocked(p)
    /\ procs' = [procs EXCEPT ![p].now = clock, ![p].todo = DOMAIN sessions,
                              ![p].pc = "ga_loop"]
    /\ UNCHANGED <<variant, clock, nreq, SessionVars, created, WalletVars>>

\* GetAllActive: one iteration of the range loop (Go ranges a map in any
\* order)
GetAllActiveLoop(p) ==
    /\ procs[p].pc = "ga_loop"
    /\ \E id \in procs[p].todo :
          LET ptr == sessions[id]
          IN /\ procs' = [procs EXCEPT
                             ![p].todo = @ \ {id},
                             ![p].active = IF IsActive(procs[p].now, heap[ptr])
                                           THEN Append(@, ptr) ELSE @]
             /\ heap' = [heap EXCEPT ![ptr] = Visit(@)]
    /\ UNCHANGED <<variant, clock, nreq, mu, nextId, sessions, created, WalletVars>>

\* GetAllActive: the loop is over; s.mu.RUnlock(); return active
GetAllActiveReturn(p) ==
    /\ procs[p].pc = "ga_loop"
    /\ procs[p].todo = {}
    /\ mu' = RUnlocked(p)
    /\ procs' = [procs EXCEPT ![p] = Finish(@, "LISTED")]
    /\ UNCHANGED <<variant, clock, nreq, SessionVars, created, WalletVars>>

\* ========================================================= wallet program
\* paidUsers[normalizedAddress] = UserAccess{StartTime: time.Now()}
PaidSet(m, k, t) == [x \in DOMAIN m \cup {k} |-> IF x = k THEN [StartTime |-> t] ELSE m[x]]

\* mutant: userFound is ignored, the zero UserAccess is taken as a record
PaidHasAlways(m, k) == TRUE

\* userAccess, userFound := paidUsers[walletAddress]: the zero UserAccess
\* when the key is missing
PaidHas(m, k) == k \in DOMAIN m
PaidGet(m, k) == IF k \in DOMAIN m THEN m[k] ELSE [StartTime |-> NoTime]

\* mutant: the expired record is left in the map
PaidDeleteNone(m, k) == m

\* delete(paidUsers, walletAddress)
PaidDelete(m, k) == [x \in DOMAIN m \ {k} |-> m[x]]

\* elapsed >= ViewDuration, with elapsed := now.Sub(userAccess.StartTime)
ViewExpired(now, start) == Sub(now, start) >= ViewDuration

\* what the lookup key of GET /api/image is: the raw header value
\* (c.GetHeader), not the lower-cased copy the middleware put in the context
ImageKey(h) == h

\* a middleware that lets every request through
MiddlewareNeverAborts(h) == FALSE

\* paymentMiddleware: if walletAddress == "" { ... AbortWithStatusJSON(402) }
MiddlewareAborts(h) == h = <<>>

\* the history of wallet key k, if k is a key the store can hold
HistPaid(k) == IF k \in DOMAIN hist THEN hist[k].paid ELSE NoTime
HistEvicted(k) == k \in DOMAIN hist /\ hist[k].evicted
\* the X-Wallet-Address header the latest completed payment for k presented
HistHeader(k) == IF k \in DOMAIN hist THEN hist[k].hdr ELSE <<>>

\* --------------------------------------------------- POST /api/pay/image
\* walletAddress := c.GetHeader("X-Wallet-Address"); 400 when it is empty;
\* normalizedAddress := strings.ToLower(walletAddress)
PayImageStart(p, h) ==
    /\ variant = "wallet"
    /\ CanStart(p)
    /\ procs' = [procs EXCEPT ![p] =
                    IF h = <<>>
                    THEN Finish([IdleProc EXCEPT !.op = "payimage", !.key = h], "BAD_REQUEST")
                    ELSE [IdleProc EXCEPT !.op = "payimage", !.key = ToLower(h),
                                          !.hdr = h, !.pc = "pi_lock"]]
    /\ nreq' = nreq + 1
    /\ UNCHANGED <<variant, clock, mu, SessionVars, created, WalletVars>>

\* mu.Lock()
PayImageLock(p) ==
    /\ procs[p].pc = "pi_lock"
    /\ CanLock
    /\ mu' = Locked(p)
    /\ procs' = [procs EXCEPT ![p].pc = "pi_store"]
    /\ UNCHANGED <<variant, clock, nreq, SessionVars, created, WalletVars>>

\* paidUsers[normalizedAddress] = UserAccess{StartTime: time.Now()};
\* mu.Unlock(); the 200 answer
PayImageStore(p) ==
    /\ procs[p].pc = "pi_store"
    /\ mu.w = p
    /\ paidUsers' = PaidSet(paidUsers, procs[p].key, clock)
    /\ mu' = Unlocked
    /\ procs' = [procs EXCEPT ![p] = Finish([@ EXCEPT !.now = clock], "ISSUED")]
    /\ created' = created \cup {procs[p].key}
    /\ hist' = [hist EXCEPT ![procs[p].key] = [paid |-> clock, evicted |-> FALSE,
                                            hdr |-> procs[p].hdr]]
    /\ UNCHANGED <<variant, clock, nreq, SessionVars>>

\* -------------------------------------------------------- GET /api/image
\* paymentMiddleware: 402 when the header is empty, else c.Next(); the
\* handler then takes the header value again as its key and answers 403
\* itself when that value is empty
ImageStart(p, h) ==
    /\ variant = "wallet"
    /\ CanStart(p)
    /\ procs' = [procs EXCEPT ![p] =
                    IF MiddlewareAborts(h)
                    THEN Finish([IdleProc EXCEPT !.op = "image", !.key = h], "PAYMENT_REQUIRED")
                    ELSE IF h = <<>>
                    THEN Finish([IdleProc EXCEPT !.op = "image", !.key = h], "FORBIDDEN")
                    ELSE [IdleProc EXCEPT !.op = "image", !.key = ImageKey(h),
                                          !.pc = "im_rlock",
                                          !.seenPay = HistPaid(ToLower(h))]]
    /\ nreq' = nreq + 1
    /\ UNCHANGED <<variant, clock, mu, SessionVars, created, WalletVars>>

\* mu.RLock()
ImageRLock(p) ==
    /\ procs[p].pc = "im_rlock"
    /\ CanRLock
    /\ mu' = RLocked(p)
    /\ procs' = [procs EXCEPT ![p].pc = "im_read"]
    /\ UNCHANGED <<variant, clock, nreq, SessionVars, created, WalletVars>>

\* userAccess, userFound := paidUsers[walletAddress]; mu.RUnlock(); 403
\* "payment needed" when not found
ImageRead(p) ==
    /\ procs[p].pc = "im_read"
    /\ mu' = RUnlocked(p)
    /\ LET k == procs[p].key
       IN procs' = [procs EXCEPT ![p] =
                        IF PaidHas(paidUsers, k)
                        THEN [@ EXCEPT !.found = TRUE, !.pc = "im_now",
                                       !.start = PaidGet(paidUsers, k).StartTime]
                        ELSE Finish(@, "NOT_FOUND")]
    /\ UNCHANGED <<variant, clock, nreq, SessionVars, created, WalletVars>>

\* now := time.Now(); elapsed := now.Sub(userAccess.StartTime); the 200
\* answer unless elapsed >= ViewDuration
ImageNow(p) ==
    /\ procs[p].pc = "im_now"
    /\ LET k == procs[p].key
           q == [procs[p] EXCEPT
                    !.now = clock,
                    !.evalStart = PaidGet(paidUsers, k).StartTime]
       IN procs' = [procs EXCEPT ![p] =
                        IF ViewExpired(clock, q.start)
                        THEN [q EXCEPT !.isExpired = TRUE, !.pc = "im_lock"]
                        ELSE Finish(q, "VALID")]
    /\ UNCHANGED <<variant, clock, nreq, mu, SessionVars, created, WalletVars>>

\* mu.Lock()
ImageLock(p) ==
    /\ procs[p].pc = "im_lock"
    /\ CanLock
    /\ mu' = Locked(p)
    /\ procs' = [procs EXCEPT ![p].pc = "im_delete"]
    /\ UNCHANGED <<variant, clock, nreq, SessionVars, created, WalletVars>>

\* delete(paidUsers, walletAddress); mu.Unlock(); 403 "expired"
ImageDelete(p) ==
    /\ procs[p].pc = "im_delete"
    /\ mu.w = p
    /\ paidUsers' = PaidDelete(paidUsers, procs[p].key)
    /\ mu' = Unlocked
    /\ procs' = [procs EXCEPT ![p] = Finish(@, "EXPIRED")]
    /\ hist' = [hist EXCEPT ![procs[p].key].evicted = TRUE]
    /\ UNCHANGED <<variant, clock, nreq, SessionVars, created>>

\* ------------------------------------------------------------------ clock
Tick ==
    /\ clock < MaxTime
    /\ clock' = clock + 1
    /\ UNCHANGED <<variant, nreq, procs, mu, SessionVars, created, WalletVars>>

Init ==
    /\ variant \in {"session", "wallet"}
    /\ clock = 0
    /\ nreq = 0
    /\ procs = [p \in Procs |-> IdleProc]
    /\ mu = [w |-> NoProc, r |-> {}]
    /\ nextId = 1
    /\ heap = <<>>
    /\ sessions = <<>>
    /\ paidUsers = <<>>
    /\ created = {}
    /\ hist = [k \in WalletKeys |-> [paid |-> NoTime, evicted |-> FALSE, hdr |-> <<>>]]

Next ==
    \/ Tick
    \/ \E p \in Procs :
        \/ \E type \in {"24hour", "onetime"} : PayNew(p, type)
        \/ SetLock(p)
        \/ SetStore(p)
        \/ \E id \in RequestIds : ValidateStart(p, id)
        \/ GetRLock(p)
        \/ GetRead(p)
        \/ ValidateNow(p)
        \/ ValidateUsed(p)
        \/ ValidateMark(p)
        \/ ListStart(p)
        \/ GetAllActiveRLock(p)
        \/ GetAllActiveLoop(p)
        \/ GetAllActiveReturn(p)
        \/ \E h \in Headers : PayImageStart(p, h)
        \/ PayImageLock(p)
        \/ PayImageStore(p)
        \/ \E h \in Headers : ImageStart(p, h)
        \/ ImageRLock(p)
        \/ ImageRead(p)
        \/ ImageNow(p)
        \/ ImageLock(p)
        \/ ImageDelete(p)

Spec == Init /\ [][Next]_vars

\* the steps of the handler that runs in slot p once its request has begun
Step(p) ==
    \/ SetLock(p) \/ SetStore(p)
    \/ GetRLock(p) \/ GetRead(p)
    \/ ValidateNow(p) \/ ValidateUsed(p) \/ ValidateMark(p)
    \/ GetAllActiveRLock(p) \/ GetAllActiveLoop(p) \/ GetAllActiveReturn(p)
    \/ PayImageLock(p) \/ PayImageStore(p)
    \/ ImageRLock(p) \/ ImageRead(p) \/ ImageNow(p)
    \/ ImageLock(p) \/ ImageDelete(p)

\* the Go scheduler runs every runnable goroutine, and a goroutine that
\* waits in Lock or RLock is woken when the mutex is released: a handler
\* that can step does step. Nothing obliges a client to send a request or
\* the clock to advance.
Fairness == \A p \in Procs : WF_vars(Step(p))

FairSpec == Init /\ [][Next]_vars /\ Fairness

\* ================================================================= claims
\* a finished redemption of the session-token program that found its session
Validated(p) ==
    /\ procs[p].op = "validate"
    /\ procs[p].pc = "done"
    /\ procs[p].verdict # "NOT_FOUND"

\* a finished redemption of the wallet program that presented a header
Imaged(p) ==
    /\ procs[p].op = "image"
    /\ procs[p].pc = "done"
    /\ procs[p].key # <<>>

\* C1: single-use exclusivity. Of the finished redemptions of one SINGLE_USE
\* session that were all evaluated before its expiry, every one answered
\* VALID or ALREADY_USED and no two answered VALID.
C1_SingleUseExclusive ==
    \A p, q \in Procs :
        ( /\ p # q
          /\ Validated(p) /\ Validated(q)
          /\ procs[p].key = procs[q].key
          /\ heap[procs[p].key].Type = "onetime"
          /\ procs[p].now < heap[procs[p].key].ExpiresAt
          /\ procs[q].now < heap[procs[q].key].ExpiresAt )
        => /\ {procs[p].verdict, procs[q].verdict} \subseteq {"VALID", "ALREADY_USED"}
           /\ ~(procs[p].verdict = "VALID" /\ procs[q].verdict = "VALID")

\* C2: expiry upper bound. A redemption that answers VALID read a clock value
\* strictly before the expiry instant of its grant (ExpiresAt of the session;
\* StartTime + ViewDuration of the wallet's record).
C2_ExpiryUpperBound ==
    \A p \in Procs :
        /\ (Validated(p) /\ procs[p].verdict = "VALID")
              => procs[p].now < heap[procs[p].key].ExpiresAt
        /\ (Imaged(p) /\ procs[p].verdict = "VALID")
              => procs[p].now < Add(procs[p].start, ViewDuration)

\* C3: expiry lower bound. A redemption that answers EXPIRED read a clock
\* value at or after the expiry instant of the grant stored under its key.
\* In the wallet program the grant is the record stored when the clock was
\* read; the case is narrowed to a record that replaced the one the
\* redemption had looked up before that one expired, so that at no instant
\* of the redemption the key's record was expired.
C3_ExpiryLowerBound ==
    \A p \in Procs :
        /\ (Validated(p) /\ procs[p].verdict = "EXPIRED")
              => procs[p].now >= heap[procs[p].key].ExpiresAt
        /\ ( /\ Imaged(p) /\ procs[p].verdict = "EXPIRED"
             /\ procs[p].evalStart # NoTime
             /\ procs[p].evalStart < Add(procs[p].start, ViewDuration) )
              => procs[p].now >= Add(procs[p].evalStart, ViewDuration)

\* C4: Redeem is atomic with respect to Create in the wallet program.
\* (a) A redemption presenting a lower-case address W that started after a
\* payment for W completed at T, and answered while the clock was still
\* before T + ViewDuration, answered VALID. (b) The delete of a redemption
\* that found a record expired removes that record and no other: not the
\* record a later payment wrote.
C4_ValidAfterPayment ==
    \A p \in Procs :
        ( /\ Imaged(p)
          /\ procs[p].key = ToLower(procs[p].key)
          /\ procs[p].seenPay # NoTime
          /\ clock < Add(procs[p].seenPay, ViewDuration) )
        => procs[p].verdict = "VALID"

C4_DeleteOnlyExpired ==
    \A p \in Procs :
        (procs[p].pc = "im_delete" /\ procs'[p].pc = "done")
        => PaidGet(paidUsers, procs[p].key).StartTime \in {NoTime, procs[p].start}

\* C4: (a) in every state and (b) in every step.
C4_RedeemAtomicWithCreate == [](C4_ValidAfterPayment) /\ [][C4_DeleteOnlyExpired]_vars

\* C5: recurring reusability. Every finished redemption of a RECURRING
\* ("24hour") session that read the clock before the session's expiry
\* answered VALID, and no step changes the record of a RECURRING session:
\* it is never marked used.
C5_RecurringValid ==
    \A p \in Procs :
        ( /\ Validated(p)
          /\ heap[procs[p].key].Type = "24hour"
          /\ procs[p].now < heap[procs[p].key].ExpiresAt )
        => procs[p].verdict = "VALID"

C5_RecurringUnchanged ==
    \A id \in DOMAIN heap : heap[id].Type = "24hour" => heap'[id] = heap[id]

\* C5: VALID before expiry in every state, the record unchanged by every step.
C5_RecurringReusable == [](C5_RecurringValid) /\ [][C5_RecurringUnchanged]_vars

\* C5 witness: two redemptions of one RECURRING session have both answered
\* VALID.
C5_Witness ==
    \E p, q \in Procs :
        /\ p # q
        /\ Validated(p) /\ Validated(q)
        /\ procs[p].key = procs[q].key
        /\ heap[procs[p].key].Type = "24hour"
        /\ procs[p].verdict = "VALID" /\ procs[q].verdict = "VALID"

\* C6: verdict precedence. A finished redemption of a SINGLE_USE session that
\* read the clock after the session's expiry answered EXPIRED, in both of
\* the claim's cases: the session's used flag is still false, or another
\* redemption that read the clock before the expiry has answered VALID (the
\* session was used before it expired).
C6_ExpiredBeforeUsed ==
    \A p \in Procs :
        ( /\ Validated(p)
          /\ heap[procs[p].key].Type = "onetime"
          /\ procs[p].now > heap[procs[p].key].ExpiresAt
          /\ \/ heap[procs[p].key].Used = "false"
             \/ \E q \in Procs \ {p} :
                   /\ Validated(q)
                   /\ procs[q].key = procs[p].key
                   /\ procs[q].verdict = "VALID"
                   /\ procs[q].now < heap[procs[q].key].ExpiresAt )
        => procs[p].verdict = "EXPIRED"

\* C7: enumeration excludes invalid grants. While GetAllActive holds the read
\* lock, the sequence it has collected holds no session whose expiry is at
\* or before the `now` it read, and no SINGLE_USE session whose used flag is
\* true.
C7_SnapshotExcludesInvalid ==
    \A p \in Procs :
        procs[p].pc = "ga_loop" =>
            \A i \in DOMAIN procs[p].active :
                LET s == heap[procs[p].active[i]]
                IN /\ procs[p].now < s.ExpiresAt
                   /\ ~(s.Type = "onetime" /\ s.Used = "true")

\* C8: unknown key. A finished redemption whose key was never stored by an
\* issuance answered NOT_FOUND (GET /api/session/:sessionId and GET
\* /api/image with a header).
C8_UnknownKeyNotFound ==
    \A p \in Procs :
        ( /\ procs[p].pc = "done"
          /\ procs[p].op = "validate" \/ (procs[p].op = "image" /\ procs[p].key # <<>>)
          /\ procs[p].key \notin created )
        => procs[p].verdict = "NOT_FOUND"

\* C8 witness: a redemption of a never-issued key has answered NOT_FOUND
\* while another key is stored.
C8_Witness ==
    \E p \in Procs :
        /\ procs[p].pc = "done"
        /\ procs[p].op = "validate" \/ (procs[p].op = "image" /\ procs[p].key # <<>>)
        /\ procs[p].key \notin created
        /\ created # {}
        /\ procs[p].verdict = "NOT_FOUND"

\* C9: used-flag monotonicity. In every step, a session's used flag that is
\* true stays true; a used flag changes only in the mark step of a
\* redemption of that session; and a redemption past its mark step goes
\* nowhere but to the VALID answer.
C9_UsedStep ==
    /\ \A id \in DOMAIN heap :
          /\ heap[id].Used = "true" => heap'[id].Used = "true"
          /\ heap[id].Used # heap'[id].Used =>
                \E p \in Procs :
                    /\ procs[p].op = "validate" /\ procs[p].pc = "v_mark"
                    /\ procs[p].ptr = id
                    /\ procs'[p].pc = "set_lock"
    /\ \A p \in Procs :
          (procs[p].op = "validate" /\ procs[p].pc \in {"set_lock", "set_store"})
          => \/ procs'[p].pc \in {"set_lock", "set_store"} /\ procs'[p].op = "validate"
             \/ procs'[p].pc = "done" /\ procs'[p].verdict = "VALID"

\* C9: every step keeps the used flag monotonic.
C9_UsedMonotonic == [][C9_UsedStep]_vars

\* C9 witness: a SINGLE_USE session is marked used and the redemption that
\* marked it has answered VALID.
C9_Witness ==
    \E p \in Procs :
        /\ Validated(p)
        /\ procs[p].verdict = "VALID"
        /\ heap[procs[p].key].Type = "onetime"
        /\ heap[procs[p].key].Used = "true"

\* C10: eager eviction in the wallet program. The step in which a redemption
\* answers EXPIRED leaves no record under its key; from an eviction until the
\* next payment for that key the store holds no record under it; and a
\* redemption that looks the key up in that period answers NOT_FOUND.
C10_EvictedAbsent ==
    \A k \in DOMAIN hist : hist[k].evicted => k \notin DOMAIN paidUsers

C10_EvictStep ==
    \A p \in Procs :
        /\ (procs[p].op = "image" /\ procs[p].pc # "done" /\ procs'[p].verdict = "EXPIRED")
              => procs[p].key \notin DOMAIN paidUsers' /\ HistEvicted(procs[p].key)'
        /\ (procs[p].pc = "im_read" /\ procs'[p].pc # "im_read" /\ HistEvicted(procs[p].key))
              => procs'[p].pc = "done" /\ procs'[p].verdict = "NOT_FOUND"

\* C10: absence after eviction in every state, the eviction and the later
\* lookups in every step.
C10_EagerEviction == [](C10_EvictedAbsent) /\ [][C10_EvictStep]_vars

\* C10 witness: one redemption has answered EXPIRED and a later one, with no
\* payment in between, NOT_FOUND.
C10_Witness ==
    \E p, q \in Procs :
        /\ Imaged(p) /\ Imaged(q)
        /\ procs[p].key = procs[q].key
        /\ procs[p].verdict = "EXPIRED"
        /\ procs[q].verdict = "NOT_FOUND"
        /\ HistEvicted(procs[q].key)

\* C11: overwrite-on-reissue in the wallet program. The record stored under
\* a key carries the time of the latest completed payment for it, and a
\* redemption that read the clock while such a record was stored (so after
\* the payments at T1 < T2 completed) is judged against that record alone:
\* it answers VALID if its clock value is before T2 + ViewDuration and
\* EXPIRED otherwise.
C11_JudgedAgainstLatest ==
    /\ \A k \in DOMAIN paidUsers : paidUsers[k].StartTime = HistPaid(k)
    /\ \A p \in Procs :
          ( /\ Imaged(p)
            /\ procs[p].verdict \in {"VALID", "EXPIRED"}
            /\ procs[p].evalStart # NoTime )
          => (procs[p].verdict = "VALID"
                <=> procs[p].now < Add(procs[p].evalStart, ViewDuration))

\* C12: pure reads do not mutate. Every step of SessionStore.Get (Lookup)
\* and of SessionStore.GetAllActive (ActiveSnapshot) leaves the key set of
\* the store and every field of every session unchanged.
C12_ReadStep ==
    \A p \in Procs :
       ( /\ procs[p].pc \in {"get_rlock", "get_read", "ga_rlock", "ga_loop"}
         /\ procs'[p] # procs[p] )
       => sessions' = sessions /\ heap' = heap

C12_ReadsDoNotMutate == [][C12_ReadStep]_vars

\* a lookup found a session and an enumeration listed one, and the store
\* still holds it
C12_Witness ==
    /\ \E p \in Procs : /\ procs[p].op = "validate" /\ procs[p].pc = "done"
                        /\ procs[p].verdict = "VALID"
    /\ \E q \in Procs : /\ procs[q].op = "list" /\ procs[q].pc = "done"
                        /\ Len(procs[q].active) > 0
    /\ DOMAIN sessions # {}

\* C13: no deletion in the session program. The key set of the store only
\* grows: every id that was ever stored is still stored, also once its
\* session has expired or was used.
C13_NoDeletion ==
    variant = "session" => created \subseteq DOMAIN sessions

\* a stored onetime session that is both used and expired
C13_Witness ==
    \E id \in DOMAIN sessions :
       /\ id \in created
       /\ heap[sessions[id]].Used = "true"
       /\ After(clock, heap[sessions[id]].ExpiresAt)

\* C14: the 402 challenge. A GET /api/image that presents no
\* X-Wallet-Address header is answered 402 Payment Required at once: it
\* never takes the lock, never reads a record and never reaches the delete,
\* so the store is neither read nor written on its behalf.
C14_ChallengeWithoutHeader ==
    \A p \in Procs :
       (procs[p].op = "image" /\ procs[p].key = <<>>)
       => /\ procs[p].pc = "done"
          /\ procs[p].verdict = "PAYMENT_REQUIRED"
          /\ procs[p].start = NoTime
          /\ p \notin mu.r
          /\ mu.w # p

\* a request without the header was answered while a record was stored
C14_Witness ==
    /\ paidUsers # <<>>
    /\ \E p \in Procs : /\ procs[p].op = "image" /\ procs[p].key = <<>>
                        /\ procs[p].verdict = "PAYMENT_REQUIRED"

\* C15: lock discipline on the used flag. A handler that is about to write
\* *session.Used holds the exclusive lock, a handler that is about to read
\* it holds the shared or the exclusive lock; hence no write of the flag
\* without the lock is pending while GetAllActive, under its read lock,
\* still has the same session to read.
C15_UsedUnderLock ==
    \A p \in Procs :
       /\ procs[p].pc = "v_mark" => mu.w = p
       /\ procs[p].pc = "v_used" => (p \in mu.r \/ mu.w = p)
       /\ \A q \in Procs :
             ( /\ procs[p].pc = "v_mark"
               /\ mu.w # p
               /\ procs[q].pc = "ga_loop" )
             => \A id \in procs[q].todo : sessions[id] # procs[p].ptr

\* C16: key normalisation consistency in the wallet program. When the
\* latest payment for a wallet presented the header X, its record has not
\* been evicted, and a GET /api/image presenting the same X looks the store
\* up, the lookup finds the record: the answer is not NOT_FOUND, whatever
\* the case of the letters of X.
C16_LookupStep ==
    \A p \in Procs :
       ( /\ procs[p].pc = "im_read"
         /\ procs'[p].pc # "im_read"
         /\ HistPaid(ToLower(procs[p].key)) # NoTime
         /\ HistHeader(ToLower(procs[p].key)) = procs[p].key
         /\ ~HistEvicted(ToLower(procs[p].key)) )
       => procs'[p].verdict # "NOT_FOUND"

C16_SameHeaderFound == [][C16_LookupStep]_vars

\* C17: well-formed grants. Every stored session expires after it was
\* created (ExpiresAt > CreatedAt), every stored wallet record's view
\* window ends after its StartTime, and a onetime session is inserted with
\* its used flag false: it is false when the issuing handler calls Set.
C17_WellFormedGrants ==
    /\ \A id \in DOMAIN sessions :
          heap[sessions[id]].ExpiresAt > heap[sessions[id]].CreatedAt
    /\ \A k \in DOMAIN paidUsers :
          Add(paidUsers[k].StartTime, ViewDuration) > paidUsers[k].StartTime
    /\ \A p \in Procs :
          ( /\ procs[p].op = "pay"
            /\ procs[p].pc \in {"set_lock", "set_store"}
            /\ heap[procs[p].ptr].Type = "onetime" )
          => heap[procs[p].ptr].Used = "false"
    /\ \A id \in DOMAIN sessions :
          heap[sessions[id]].Type = "onetime" => heap[sessions[id]].Used # "nil"

\* a onetime session has just been inserted, its flag still false
C17_Witness ==
    \E p \in Procs :
       /\ procs[p].op = "pay" /\ procs[p].pc = "done"
       /\ procs[p].key \in DOMAIN sessions
       /\ heap[sessions[procs[p].key]].Type = "onetime"
       /\ heap[sessions[procs[p].key]].Used = "false"

\* a handler in slot p is under way
Running(p) == procs[p].pc \notin {"idle", "done"}

\* C18: completion without deadlock. Under fair scheduling every handler
\* that has begun (Create, Lookup, Redeem, ActiveSnapshot, with any callers
\* running beside it) eventually completes; a handler that is not under way
\* holds no lock, and a completed handler carries a definitive answer, for
\* a redemption one of VALID, EXPIRED, ALREADY_USED, NOT_FOUND.
C18_DefiniteAnswer ==
    \A p \in Procs :
       /\ ~Running(p) => (p \notin mu.r /\ mu.w # p)
       /\ procs[p].pc = "done" => procs[p].verdict # "none"
       /\ (procs[p].pc = "done" /\ procs[p].op = "validate")
             => procs[p].verdict \in {"VALID", "EXPIRED", "ALREADY_USED", "NOT_FOUND"}
       /\ (procs[p].pc = "done" /\ procs[p].op = "image" /\ procs[p].key # <<>>)
             => procs[p].verdict \in {"VALID", "EXPIRED", "NOT_FOUND"}

C18_Completion ==
    /\ [](C18_DefiniteAnswer)
    /\ \A p \in Procs : Running(p) ~> (procs[p].pc = "done")

\* a handler waits for the exclusive lock while another holds the shared one
C18_Witness ==
    \E p, q \in Procs :
       /\ p # q
       /\ procs[p].pc \in {"set_lock", "pi_lock", "im_lock"}
       /\ q \in mu.r

\* C19: state unchanged on failed redemption, in the session program. A
\* step of a GET /api/session handler leaves the key set of the store
\* unchanged, and changes a session only at the mark of a onetime session,
\* where it sets that session's Used to true and nothing else (ID,
\* CreatedAt, ExpiresAt and Type are never modified); a redemption that
\* answers NOT_FOUND, EXPIRED or ALREADY_USED answers before the mark, so
\* it has changed nothing.
C19_RedeemStep ==
    \A p \in Procs :
       ( /\ procs[p].op = "validate"
         /\ Running(p)
         /\ procs'[p] # procs[p] )
       => /\ sessions' = sessions
          /\ \/ heap' = heap
             \/ /\ procs[p].pc = "v_mark"
                /\ heap[procs[p].ptr].Type = "onetime"
                /\ heap' = [heap EXCEPT ![procs[p].ptr].Used = "true"]
          /\ procs'[p].verdict \in {"NOT_FOUND", "EXPIRED", "ALREADY_USED"}
                => /\ procs[p].pc \in {"get_read", "v_used"}
                   /\ heap' = heap

C19_FailedRedeemFrame == [][C19_RedeemStep]_vars

\* one redemption consumed a onetime session and a later one was refused
C19_Witness ==
    \E p, q \in Procs :
       /\ Validated(p) /\ procs[p].verdict = "VALID"
       /\ Validated(q) /\ procs[q].verdict \in {"EXPIRED", "ALREADY_USED"}
       /\ procs[q].key = procs[p].key
       /\ heap[sessions[procs[p].key]].Used = "true"

====
